---- MODULE Spec2Model ----
(***************************************************************************)
(* ActiveLearningLoop.step of baal/active/active_loop.py as a state        *)
(* machine.  The dataset (Pool Provider), get_probabilities (Probability   *)
(* Source), the heuristic (Ranking Heuristic) and pickle/open (storage     *)
(* sink) are collaborators: what they return or raise is drawn from small  *)
(* sets, what step() does with it is translated from the code.             *)
(***************************************************************************)
EXTENDS Integers, Sequences, FiniteSets, TLC

VARIABLES
  labelled,            \* the dataset: the samples that are labelled
  ndata_to_label,      \* self.ndata_to_label
  max_sample,          \* self.max_sample
  uncertainty_folder,  \* self.uncertainty_folder is not None
  watched,             \* one snapshot file of the folder, picked when it was written
  pc,                  \* the caller: "idle", or "returned" from step() with `last`
  last                 \* what the call of step() that just returned did

vars == <<labelled, ndata_to_label, max_sample, uncertainty_folder, watched, pc, last>>
config == <<ndata_to_label, max_sample, uncertainty_folder>>

\* ---------------------------------------------------------------- bounds
\* Number of samples of the dataset (labelled and unlabelled together).
NItems == 3
\* The values of ndata_to_label a loop is constructed with.
NdataChoices == {1, 2}

Items == 0 .. (NItems - 1)

\* ------------------------------------------------------ optional values
None == <<>>
Some(x) == <<x>>
IsNone(o) == o = <<>>
Val(o) == o[1]

\* ------------------------------------------------------------- helpers
Min(a, b) == IF a < b THEN a ELSE b

RECURSIVE SortedSeq(_)
SortedSeq(S) ==
  IF S = {} THEN <<>>
  ELSE LET m == CHOOSE x \in S : \A y \in S : x <= y
       IN <<m>> \o SortedSeq(S \ {m})

IsInjective(s) == \A i, j \in DOMAIN s : i # j => s[i] # s[j]

\* Sequences of length k over 0..n-1 with pairwise distinct entries.
InjSeqs(n, k) == { s \in [1 .. k -> 0 .. (n - 1)] : IsInjective(s) }

\* InjSeqs, tabulated for the pool sizes of the model.
InjSeqsTable == [n \in 0 .. NItems |-> [k \in 0 .. n |-> InjSeqs(n, k)]]

\* The rankings of n positions: all of them, the first few, or none.
RankingsTable == [n \in 0 .. NItems |-> UNION { InjSeqsTable[n][k] : k \in 0 .. n }]

\* -------------------------------------------- Pool Provider (the dataset)
\* dataset.pool: the unlabelled samples, in dataset order.
\* (PoolTable tabulates it for every labelling.)
PoolTable == [lab \in SUBSET Items |-> SortedSeq(Items \ lab)]
DatasetPool(lab) == PoolTable[lab]

\* len(dataset): the number of labelled samples.
DatasetLen(lab) == Cardinality(lab)

\* dataset.label(positions) raises when a position is not one of the pool.
LabelRaises(lab, positions) ==
  \E i \in DOMAIN positions : positions[i] >= Len(DatasetPool(lab))

\* dataset.label(positions): the samples at these pool positions become labelled.
Label(lab, positions) ==
  lab \cup { DatasetPool(lab)[positions[i] + 1] : i \in DOMAIN positions }

\* dataset.state_dict(): the labelling state.
StateDict(lab) == lab

\* ------------------------------------------------------ step(): the code
\* line 62: the pool is limited to max_sample samples.
NeedsSubsampleLE(ms, n) == ms # -1 /\ ms <= n
NeedsSubsample(ms, n) == ms # -1 /\ ms < n

\* line 63: np.random.choice(n, k, replace=False): any k distinct positions, any order.
RandomChoiceWithReplacement(n, k) == [1 .. k -> 0 .. (n - 1)]
RandomChoice(n, k) == InjSeqsTable[n][k]

\* line 66: np.arange(n).
Arange(n) == [i \in 1 .. n |-> i - 1]

\* line 64: torchdata.Subset(pool, indices).
Subset(pool, indices) == [i \in 1 .. Len(indices) |-> pool[indices[i] + 1]]

\* line 68: an explicitly supplied pool has no index map.
ExplicitIndicesArange(pool) == Some(Arange(Len(pool)))
ExplicitIndices(pool) == None

\* line 72: probs is not None and (isinstance(probs, GeneratorType) or len(probs) > 0).
ProbsUsableByLen(pr) == pr.kind # "None" /\ pr.len > 0
ProbsUsableNotNone(pr) == pr.kind # "None"
ProbsUsable(pr) == pr.kind # "None" /\ (pr.kind = "generator" \/ pr.len > 0)

\* line 72: len(probs) is evaluated only after the isinstance test failed.
LenCalls(pr) == IF pr.kind # "None" /\ pr.kind # "generator" THEN 1 ELSE 0

\* line 75: indices[np.array(to_label)].
GatherSkipped(indices, to_label) == to_label
Gather(indices, to_label) == [i \in 1 .. Len(to_label) |-> indices[to_label[i] + 1]]

\* lines 78-80: the snapshot's file name.
UncertaintyNameNoLabelled(P, L) == <<"uncertainty_pool=", P, "_labelled=", 0, ".pkl">>
UncertaintyName(P, L) == <<"uncertainty_pool=", P, "_labelled=", L, ".pkl">>

\* line 89: len(to_label) > 0.
ShouldLabelAlways(to_label) == TRUE
ShouldLabel(to_label) == Len(to_label) > 0

\* line 90: to_label[: self.ndata_to_label].
TakeAll(to_label, k) == to_label
Take(to_label, k) == SubSeq(to_label, 1, Min(k, Len(to_label)))

\* lines 70-91: no try/except: what a collaborator raises reaches the caller.
OnRaiseSwallow(src) == "false"
OnRaise(src) == "raise"

\* ------------------------------------------------- collaborators' results
\* get_probabilities(pool): None, an array of len n, a generator, or it raises.
ProbOutcomes(P, F) ==
  { [kind |-> "None", len |-> 0],
    [kind |-> "array", len |-> 0],
    [kind |-> "array", len |-> P],
    [kind |-> "generator", len |-> 0],
    [kind |-> "generator", len |-> 1] }
  \cup (IF "get_probabilities" \in F THEN { [kind |-> "raise", len |-> 0] } ELSE {})

\* heuristic.get_ranks(probs): a ranking of distinct pool-local positions, or it raises.
HeuristicOutcomes(P, F) ==
  { [raises |-> FALSE, ranks |-> r] : r \in RankingsTable[P] }
  \cup (IF "get_ranks" \in F THEN { [raises |-> TRUE, ranks |-> <<>>] } ELSE {})

\* state_dict(), open() and pickle.dump(), in the order step() evaluates them.
StorageOutcomes(F) == {"ok"} \cup (F \cap {"state_dict", "open", "dump"})

AllFaults == {"get_probabilities", "get_ranks", "state_dict", "open", "dump"}

\* Pools a caller may pass to step(pool): any number of samples.
ExplicitPools == { SubSeq(Arange(NItems), 1, k) : k \in 0 .. NItems }

\* ---------------------------------------------------- the step's record
\* What one call of step() did, as its collaborators and its caller saw it.
Blank ==
  [ poolArg |-> None,        \* the pool argument
    poolBefore |-> <<>>,     \* dataset.pool when step() was called
    workPool |-> <<>>,       \* pool after lines 58-68
    indices |-> None,        \* indices after lines 58-68
    probsCalls |-> 0, probsArg |-> None, probs |-> [kind |-> "NotCalled", len |-> 0],
    lenCalls |-> 0,
    heurCalls |-> 0, ranks |-> <<>>, toLabel |-> <<>>,
    wrote |-> None,          \* the file name opened "wb"
    snapshot |-> None,       \* the record pickle.dump wrote
    overwrote |-> FALSE,     \* the file opened is the watched one
    overwroteStale |-> FALSE,\* ... and a step returned True since it was watched
    labelCalls |-> 0, labelArg |-> None,
    raised |-> "none",       \* the collaborator that raised
    ret |-> "none" ]         \* "true", "false", or "raise": the exception left step()

\* ------------------------------------------------------------ step()
\* The folder holds every snapshot written so far.  The model follows one of them:
\* a step that writes a snapshot either keeps following the file it follows or
\* follows the one it writes, so every pair of writes is compared in some behaviour.
\* stale: a step has returned True since the file was written.
Unwatched == None
Watch(name) == Some([name |-> name, stale |-> FALSE])
IsWatched(name) == ~IsNone(watched) /\ Val(watched).name = name
IsWatchedStale(name) == IsWatched(name) /\ Val(watched).stale
Watches(name) == {watched, Watch(name)}
Aged(w) == IF IsNone(w) THEN w ELSE Some([Val(w) EXCEPT !.stale = TRUE])

\* step() ends: t is the finished record.
Done(t, newLabelled, newWatched) ==
  /\ last' = t
  /\ pc' = "returned"
  /\ labelled' = newLabelled
  /\ watched' = newWatched
  /\ UNCHANGED config

\* A collaborator raised: the exception leaves step() (lines 70-91 catch nothing).
Raise(t, src, newWatched) ==
  Done([t EXCEPT !.raised = src, !.ret = OnRaise(src)], labelled, newWatched)

\* lines 89-92.
LabelStage(t, to_label, newWatched) ==
  IF ShouldLabel(to_label)
  THEN LET arg == Take(to_label, ndata_to_label)
           t1 == [t EXCEPT !.labelCalls = 1, !.labelArg = Some(arg)]
       IN IF LabelRaises(labelled, arg)
          THEN Raise(t1, "label", newWatched)
          ELSE Done([t1 EXCEPT !.ret = "true"], Label(labelled, arg), Aged(newWatched))
  ELSE Done([t EXCEPT !.ret = "false"], labelled, newWatched)

\* lines 76-88: the dict is built (state_dict), the file is opened "wb", then dumped.
PersistStage(t, pool, to_label, uncertainty, F) ==
  IF uncertainty_folder
  THEN \E so \in StorageOutcomes(F) :
         LET name == UncertaintyName(Len(pool), DatasetLen(labelled))
             snap == [indices |-> t.indices, uncertaintyLen |-> Len(uncertainty),
                      dataset |-> StateDict(labelled)]
             opened == [t EXCEPT !.wrote = Some(name),
                                 !.overwrote = IsWatched(name),
                                 !.overwroteStale = IsWatchedStale(name)]
         IN CASE so = "state_dict" -> Raise(t, "state_dict", watched)
              [] so = "open" -> Raise(t, "open", watched)
              [] so = "dump" -> \E w \in Watches(name) : Raise(opened, "dump", w)
              [] OTHER -> \E w \in Watches(name) :
                            LabelStage([opened EXCEPT !.snapshot = Some(snap)], to_label, w)
  ELSE LabelStage(t, to_label, watched)

\* lines 73-75.
RankStage(t, pool, hr, F) ==
  LET t1 == [t EXCEPT !.heurCalls = 1]
  IN IF hr.raises
     THEN Raise(t1, "get_ranks", watched)
     ELSE LET to_label == IF ~IsNone(t.indices)
                          THEN Gather(Val(t.indices), hr.ranks)
                          ELSE hr.ranks
              t2 == [t1 EXCEPT !.ranks = hr.ranks, !.toLabel = to_label]
          IN PersistStage(t2, pool, to_label, hr.ranks, F)

\* lines 71-72.
ProbsStage(t, pool, pr, F) ==
  LET t1 == [t EXCEPT !.probsCalls = 1, !.probsArg = Some(pool)]
  IN IF pr.kind = "raise"
     THEN Raise(t1, "get_probabilities", watched)
     ELSE LET t2 == [t1 EXCEPT !.probs = pr, !.lenCalls = LenCalls(pr)]
          IN IF ProbsUsable(pr)
             THEN \E hr \in HeuristicOutcomes(Len(pool), F) : RankStage(t2, pool, hr, F)
             ELSE Done([t2 EXCEPT !.ret = "false"], labelled, watched)

\* lines 58-68: the index maps step() may end up with (None: indices is not bound).
ResolveIndices(poolArg, dpool) ==
  IF IsNone(poolArg)
  THEN IF Len(dpool) > 0
       THEN IF NeedsSubsample(max_sample, Len(dpool))
            THEN { Some(ix) : ix \in RandomChoice(Len(dpool), max_sample) }
            ELSE { Some(Arange(Len(dpool))) }
       ELSE { None }
  ELSE { ExplicitIndices(Val(poolArg)) }

\* lines 58-68: the pool step() works on.
ResolvePool(poolArg, dpool, indices) ==
  IF IsNone(poolArg)
  THEN IF Len(dpool) > 0 /\ NeedsSubsample(max_sample, Len(dpool))
       THEN Subset(dpool, Val(indices))
       ELSE dpool
  ELSE Val(poolArg)

\* lines 47-92: one call of step(pool) whose collaborators may raise as F allows.
StepBody(poolArg, F) ==
  /\ pc = "idle"
  /\ LET dpool == DatasetPool(labelled)
         t0 == [Blank EXCEPT !.poolArg = poolArg, !.poolBefore = dpool]
     IN \E indices \in ResolveIndices(poolArg, dpool) :
          LET pool == ResolvePool(poolArg, dpool, indices)
              t1 == [t0 EXCEPT !.workPool = pool, !.indices = indices]
          IN IF Len(pool) > 0
             THEN \E pr \in ProbOutcomes(Len(pool), F) : ProbsStage(t1, pool, pr, F)
             ELSE Done([t1 EXCEPT !.ret = "false"], labelled, watched)

\* step(): the pool comes from the dataset.
StepInternal == StepBody(None, AllFaults)

\* step(pool): the caller supplies the pool.
StepExplicit == \E p \in ExplicitPools : StepBody(Some(p), AllFaults)

\* The caller has the result (or the exception) and may call step() again.
Resume ==
  /\ pc = "returned"
  /\ pc' = "idle"
  /\ last' = Blank
  /\ UNCHANGED <<labelled, watched, config>>

\* __init__, lines 39-45, on a dataset with some samples already labelled.
Init ==
  /\ labelled \in SUBSET Items
  /\ ndata_to_label \in NdataChoices
  /\ max_sample \in {-1} \cup (0 .. NItems)
  /\ uncertainty_folder \in BOOLEAN
  /\ watched = Unwatched
  /\ pc = "idle"
  /\ last = Blank

Next == StepInternal \/ StepExplicit \/ Resume

Spec == Init /\ [][Next]_vars

\* A caller that calls step() until it returns False; the collaborators raise nothing.
LoopStep == StepBody(None, {})

LoopResume == last.ret = "true" /\ Resume

LoopNext == LoopStep \/ LoopResume

\* WF_vars(LoopStep): a call of step() that can be made is made.  LoopStep is
\* enabled exactly when pc = "idle" and every LoopStep step leaves "idle", so
\* weak fairness of LoopStep is this formula.
LoopStepFair == []<>(pc # "idle")

\* The caller's loop runs on: it is single-threaded and step() is synchronous.
SpecLoop == Init /\ [][LoopNext]_vars /\ WF_vars(LoopResume) /\ LoopStepFair

\* ============================================================== claims
Returned == pc = "returned"
PoolAfter == DatasetPool(labelled)
PartitionUnchanged == PoolAfter = last.poolBefore
IsPrefixOf(a, s) == Len(a) <= Len(s) /\ \A i \in 1 .. Len(a) : a[i] = s[i]

\* C1: a step whose heuristic returned a non-empty ranking, and which no
\* collaborator's exception ended, returns True and calls label exactly once, with
\* the first min(ndata_to_label, len(to_label)) entries of the translated ranking,
\* in ranking order.
C1_LabelsTopK ==
  (Returned /\ last.heurCalls = 1 /\ Len(last.ranks) > 0 /\ last.raised = "none") =>
    /\ last.ret = "true"
    /\ last.labelCalls = 1
    /\ ~IsNone(last.labelArg)
    /\ Len(Val(last.labelArg)) = Min(ndata_to_label, Len(last.toLabel))
    /\ IsPrefixOf(Val(last.labelArg), last.toLabel)

\* A step labelled two of the three entries of its ranking.
C1_Witness ==
  /\ Returned /\ last.ret = "true"
  /\ ndata_to_label = 2 /\ last.toLabel = <<2, 0, 1>>
  /\ Val(last.labelArg) = <<2, 0>>

\* C2: step() returns False and labels nothing when the working pool is empty
\* (get_probabilities is then not called), when get_probabilities returns None, and
\* when it returns an empty array.
C2_FalseWithoutLabelling ==
  Returned =>
    /\ Len(last.workPool) = 0 =>
         /\ last.ret = "false" /\ last.labelCalls = 0 /\ PartitionUnchanged
         /\ last.probsCalls = 0
    /\ (last.probs.kind = "None" \/ (last.probs.kind = "array" /\ last.probs.len = 0)) =>
         /\ last.ret = "false" /\ last.labelCalls = 0 /\ PartitionUnchanged
         /\ last.heurCalls = 0

\* get_probabilities returned an empty array for a pool of three samples.
C2_Witness ==
  /\ Returned /\ last.ret = "false"
  /\ Len(last.workPool) = 3
  /\ last.probs.kind = "array" /\ last.probs.len = 0

\* C3: on a subsampled pool the i-th position passed to label is
\* index_map[ranks[i]], and the sample labelled is the one the heuristic ranked i-th
\* in the working pool.
C3_GatherThroughIndexMap ==
  ( /\ Returned /\ IsNone(last.poolArg)
    /\ max_sample # -1 /\ max_sample < Len(last.poolBefore)
    /\ last.labelCalls = 1 ) =>
    LET arg == Val(last.labelArg)
        ix == Val(last.indices)
    IN /\ Len(arg) = Min(ndata_to_label, Len(last.ranks))
       /\ \A i \in 1 .. Len(arg) : arg[i] = ix[last.ranks[i] + 1]
       /\ last.ret = "true" =>
            \A i \in 1 .. Len(arg) : last.workPool[last.ranks[i] + 1] \in labelled

\* Two samples labelled through an index map that is no prefix of the identity.
C3_Witness ==
  /\ Returned /\ IsNone(last.poolArg) /\ last.ret = "true"
  /\ max_sample = 2 /\ Len(last.poolBefore) = 3
  /\ Val(last.indices) = <<2, 0>> /\ last.ranks = <<1, 0>>
  /\ Val(last.labelArg) = <<0, 2>>

\* C4: with max_sample == -1 or max_sample >= len(pool), and a non-empty pool from
\* the dataset, get_probabilities receives the full pool, the index map is the
\* identity and label receives the first ndata_to_label raw ranks.
C4_FullPoolIdentityMap ==
  ( /\ Returned /\ IsNone(last.poolArg) /\ Len(last.poolBefore) > 0
    /\ (max_sample = -1 \/ max_sample >= Len(last.poolBefore)) ) =>
    /\ last.probsArg = Some(last.poolBefore)
    /\ last.indices = Some(Arange(Len(last.poolBefore)))
    /\ last.labelCalls = 1 =>
         /\ IsPrefixOf(Val(last.labelArg), last.ranks)
         /\ Len(Val(last.labelArg)) = Min(ndata_to_label, Len(last.ranks))

\* max_sample equals the pool's length and a step labelled from the full pool.
C4_Witness ==
  /\ Returned /\ IsNone(last.poolArg) /\ last.ret = "true"
  /\ max_sample = 3 /\ Len(last.poolBefore) = 3
  /\ last.ranks = <<2, 0, 1>>

\* C5: with 0 < max_sample < len(pool), get_probabilities receives exactly
\* max_sample samples, and the index map's entries are distinct positions of the pool.
C5_SubsampleShape ==
  ( /\ Returned /\ IsNone(last.poolArg)
    /\ 0 < max_sample /\ max_sample < Len(last.poolBefore) ) =>
    LET ix == Val(last.indices)
    IN /\ ~IsNone(last.probsArg) /\ Len(Val(last.probsArg)) = max_sample
       /\ Len(ix) = max_sample
       /\ \A i \in 1 .. Len(ix) : 0 <= ix[i] /\ ix[i] < Len(last.poolBefore)
       /\ \A i, j \in 1 .. Len(ix) : i # j => ix[i] # ix[j]
       /\ \A i \in 1 .. Len(ix) : Val(last.probsArg)[i] = last.poolBefore[ix[i] + 1]

\* Two of three samples were drawn, out of order.
C5_Witness ==
  /\ Returned /\ IsNone(last.poolArg)
  /\ max_sample = 2 /\ Len(last.poolBefore) = 3
  /\ Val(last.indices) = <<2, 1>> /\ last.probsCalls = 1

\* C6: with a pool supplied to step(), whatever its size and max_sample,
\* get_probabilities receives that pool, there is no index map, label receives the
\* first ndata_to_label raw ranks and the snapshot records indices as None.
C6_ExplicitPoolPassThrough ==
  (Returned /\ ~IsNone(last.poolArg)) =>
    /\ last.workPool = Val(last.poolArg)
    /\ IsNone(last.indices)
    /\ last.probsCalls = 1 => last.probsArg = last.poolArg
    /\ last.labelCalls = 1 =>
         /\ IsPrefixOf(Val(last.labelArg), last.ranks)
         /\ Len(Val(last.labelArg)) = Min(ndata_to_label, Len(last.ranks))
    /\ ~IsNone(last.snapshot) => IsNone(Val(last.snapshot).indices)

\* A supplied pool larger than max_sample was ranked, snapshotted and labelled from.
C6_Witness ==
  /\ Returned /\ ~IsNone(last.poolArg) /\ last.ret = "true"
  /\ max_sample = 1 /\ Len(Val(last.poolArg)) = 3
  /\ ~IsNone(last.snapshot) /\ Len(last.ranks) = 3

C8_ErrorsPropagate ==
  (Returned /\ last.raised \in AllFaults) =>
    /\ last.ret = "raise"
    /\ last.probsCalls <= 1 /\ last.heurCalls <= 1
    /\ last.labelCalls = 0
    /\ PartitionUnchanged

\* pickle.dump raised after a non-empty ranking.
C8_Witness ==
  /\ Returned /\ last.raised = "dump" /\ Len(last.toLabel) = 2
  /\ ~IsNone(last.wrote)

\* C9: a generator returned for a non-empty pool always reaches the heuristic,
\* and len() is taken of arrays only.
C9_GeneratorNeverEmptyChecked ==
  Returned =>
    /\ last.probs.kind = "generator" => (last.heurCalls = 1 /\ last.lenCalls = 0)
    /\ last.lenCalls = 1 => last.probs.kind = "array"

\* A generator that would yield nothing was handed to the heuristic.
C9_Witness ==
  /\ Returned /\ last.probs.kind = "generator" /\ last.probs.len = 0
  /\ last.heurCalls = 1 /\ last.ret = "false"

\* C10: in the caller's loop every step() that returns True leaves the pool
\* strictly shorter, and the loop eventually receives False.
C10_LoopTerminates ==
  /\ []((Returned /\ last.ret = "true") => Len(PoolAfter) < Len(last.poolBefore))
  /\ <>(Returned /\ last.ret = "false")

\* A step returned True and exhausted the pool.
C10_Witness ==
  /\ Returned /\ last.ret = "true"
  /\ Len(last.poolBefore) = 2 /\ Len(PoolAfter) = 0

====
